---- MODULE Spec2Model ----
(***************************************************************************)
(* Character-level RNN notebook (wk9/Anna KaRNNa Name Scoped.ipynb):       *)
(* the batching of the token stream (split_data, get_batch), the training  *)
(* loop with its carried LSTM state, periodic validation and checkpoints,  *)
(* the sampler (pick_top_n, sample), and the vocabulary of the corpus.     *)
(*                                                                         *)
(* Arrays are sequences (a matrix is a sequence of rows), numpy indices    *)
(* are 0-based in the source and 1-based here.  The recurrent cell, the    *)
(* loss and the optimizer are TensorFlow's: a hidden state is modelled by  *)
(* the history of what the cell absorbed since the zero state (a free      *)
(* term: two states are equal only when they were built the same way),     *)
(* the parameters by the number of optimizer steps applied to them.        *)
(***************************************************************************)
EXTENDS Integers, Sequences, FiniteSets, TLC

\* ------------------------------------------------------------------ bounds
MaxLen == 7
MaxTrainLen == 9
MaxBatchSize == 2
MaxNumSteps == 2
NumSymbols == 2
MaxEpochs == 2
MaxSaveEveryN == 3
MaxSamples == 2
MaxVocab == 4
MaxWeight == 2
MaxTopN == 5
MaxTextLen == 3

\* split_frac values tried, as exact fractions <<numerator, denominator>>
\* (0.9 is the default of split_data); int(n*split_frac) in floating point
\* agrees with the exact floor for these fractions and every n used here.
SplitFracs == {<<1, 2>>, <<9, 10>>, <<1, 1>>}

\* ----------------------------------------------------------------- helpers
Min(a, b) == IF a <= b THEN a ELSE b

Max(a, b) == IF a >= b THEN a ELSE b

\* Python's a[lo:hi] for 0 <= lo, 0 <= hi: the bounds are clamped to len(a).
Slice(a, lo, hi) == SubSeq(a, Min(lo, Len(a)) + 1, Min(hi, Len(a)))

\* Number of columns of a matrix with at least one row.
Cols(m) == Len(m[1])

\* m[:, lo:hi]
ColSlice(m, lo, hi) == [r \in 1..Len(m) |-> Slice(m[r], lo, hi)]

\* Column j of a matrix, as the vector of its entries over the rows.
Column(m, j) == [r \in 1..Len(m) |-> m[r][j]]

\* All sequences over S of length at most n.
SeqsUpTo(S, n) == UNION {[1..k -> S] : k \in 0..n}

\* -------------------------------------------------------------- split_data
\* np.split(a, sections) with an integer: equal contiguous parts, an error
\* when len(a) is not divisible.
np_split_ok(a, sections) == Len(a) % sections = 0

np_split_interleaved(a, sections) ==
    [r \in 1..sections |->
        [j \in 1..(Len(a) \div sections) |-> a[(j - 1) * sections + r]]]

\* np.stack(np.split(a, sections)): row r is the r-th contiguous part.
np_split(a, sections) ==
    [r \in 1..sections |->
        SubSeq(a, (r - 1) * (Len(a) \div sections) + 1,
                  r * (Len(a) \div sections))]

n_batches_ceil(len, batch_size, num_steps) ==
    (len + batch_size * num_steps - 1) \div (batch_size * num_steps)

\* n_batches = int(len(chars) / slice_size)
n_batches_of(len, batch_size, num_steps) ==
    len \div (batch_size * num_steps)

targets_unshifted(cs, n) == Slice(cs, 0, n)

\* y = chars[1: n_batches*slice_size + 1]
targets_of(cs, n) == Slice(cs, 1, n + 1)

\* split_idx = int(n_batches*split_frac)
split_idx_of(n, frac) == (n * frac[1]) \div frac[2]

\* split_data(chars, batch_size, num_steps, split_frac): the four matrices,
\* or the ValueError of np.split when a flat array does not divide evenly.
split_data(cs, batch_size, num_steps, frac) ==
    LET slice_size == batch_size * num_steps
        nb == n_batches_of(Len(cs), batch_size, num_steps)
        xf == Slice(cs, 0, nb * slice_size)
        yf == targets_of(cs, nb * slice_size)
        split_idx == split_idx_of(nb, frac)
    IN  IF ~np_split_ok(xf, batch_size) \/ ~np_split_ok(yf, batch_size)
        THEN [raised |-> TRUE, train_x |-> <<>>, train_y |-> <<>>,
              val_x |-> <<>>, val_y |-> <<>>]
        ELSE LET x == np_split(xf, batch_size)
                 y == np_split(yf, batch_size)
             IN  [raised |-> FALSE,
                  train_x |-> ColSlice(x, 0, split_idx * num_steps),
                  train_y |-> ColSlice(y, 0, split_idx * num_steps),
                  val_x |-> ColSlice(x, split_idx * num_steps, Cols(x)),
                  val_y |-> ColSlice(y, split_idx * num_steps, Cols(y))]

\* --------------------------------------------------------------- get_batch
\* get_batch(arrs, num_steps): the windows the generator yields, in order;
\* window k is the list of arr[:, (k-1)*num_steps : k*num_steps] over arrs,
\* and their number comes from the first array's column count.
get_batch_reversed(arrs, steps) ==
    LET slice_size == Cols(arrs[1])
        nb == slice_size \div steps
    IN  [k \in 1..nb |->
            [a \in 1..Len(arrs) |->
                ColSlice(arrs[a], (nb - k) * steps, (nb - k + 1) * steps)]]

get_batch(arrs, steps) ==
    LET slice_size == Cols(arrs[1])
        nb == slice_size \div steps
    IN  [k \in 1..nb |->
            [a \in 1..Len(arrs) |->
                ColSlice(arrs[a], (k - 1) * steps, k * steps)]]

\* A generator object made by a call of get_batch: the arrays it was given
\* ("none" before the call) and its num_steps argument, the number of
\* windows it has yielded, and whether it has raised StopIteration.
NewGenerator == [arrs |-> "none", num_steps |-> 1, b |-> 0, done |-> FALSE]

gen_cursor_shared(g, gs) == gs[1].b + gs[2].b

\* for b in range(n_batches): b is a local of the generator's own frame
gen_cursor(g, gs) == gs[g].b

\* ------------------------------------------------------------ the network
lstm_size == 512

max_to_keep == 100

\* cell.zero_state / sess.run(model.initial_state)
ZeroState == <<>>

rnn_step_forgetting(state, col, keep_prob, th) == <<<<col, keep_prob, th>>>>

\* One position of the stacked cell: the state after absorbing input column
\* col under dropout keep probability keep_prob and parameters th.
rnn_step(state, col, keep_prob, th) == Append(state, <<col, keep_prob, th>>)

\* static_rnn: the window is processed one position at a time, in order,
\* threading the state through every position.
RECURSIVE static_rnn(_, _, _, _, _)
static_rnn(x, j, state, keep_prob, th) ==
    IF j > Cols(x) THEN state
    ELSE static_rnn(x, j + 1, rnn_step(state, Column(x, j), keep_prob, th),
                    keep_prob, th)

\* The placeholders inputs and targets have shape [batch_size, num_steps]:
\* feeding an array of another shape raises.
HasShape(m, rows, cols) ==
    /\ Len(m) = rows
    /\ \A r \in 1..Len(m) : Len(m[r]) = cols

keep_prob_train == "0.5"

keep_prob_eval == "1."

TrainFetches == {"cost", "final_state", "optimizer"}

ValFetchesWithOptimizer == {"cost", "final_state", "optimizer"}

ValFetches == {"cost", "final_state"}

\* sess.run(fetches, feed_dict): the cost, the final state, and the
\* parameters afterwards (one optimizer step when the optimizer is fetched).
\* finite tells whether the arithmetic of the run stayed finite; the cost is
\* nan when it did not.
sess_run(fetches, x, y, keep_prob, init, th, rows, steps, finite) ==
    IF ~HasShape(x, rows, steps) \/ ~HasShape(y, rows, steps)
    THEN [raised |-> TRUE, cost |-> <<>>, final_state |-> init, theta |-> th]
    ELSE [raised |-> FALSE,
          cost |-> IF finite THEN <<"cost", th, keep_prob>> ELSE <<"nan">>,
          final_state |-> static_rnn(x, 1, init, keep_prob, th),
          theta |-> IF "optimizer" \in fetches THEN th + 1 ELSE th]

np_mean_zero_when_empty(l) ==
    IF \E k \in 1..Len(l) : l[k] = <<"nan">> THEN <<"nan">>
    ELSE <<"mean", l>>

\* np.mean of a list of losses: nan for an empty list (0/0, with a warning
\* and no exception) and for a list that holds a nan.
np_mean(l) ==
    IF l = <<>> \/ (\E k \in 1..Len(l) : l[k] = <<"nan">>) THEN <<"nan">>
    ELSE <<"mean", l>>

ScheduledOnMultiplesOnly(it, every, iters) == it % every = 0

\* if (iteration%save_every_n == 0) or (iteration == iterations)
Scheduled(it, every, iters) == (it % every = 0) \/ (it = iters)

after_train_batch_checking_loss(finite, sched) ==
    IF ~finite THEN "run_raised"
    ELSE IF sched THEN "validate" ELSE "batch"

\* loss += batch_loss, the progress print and the schedule test: where the
\* loop goes after a training batch.  batch_loss is not tested.
after_train_batch(finite, sched) == IF sched THEN "validate" ELSE "batch"

epoch_state_carried(prev) == prev

\* new_state = sess.run(model.initial_state) at the top of the epoch loop
epoch_initial_state(prev) == ZeroState

\* saver.save with max_to_keep: the oldest checkpoints are dropped.
saver_save(cps, cp) ==
    LET all == Append(cps, cp)
    IN  SubSeq(all, Max(1, Len(all) - max_to_keep + 1), Len(all))

\* ------------------------------------------------------------- vocabulary
\* The characters of the corpus.
Alphabet == {"F", "a", "r", "T", "h", "e"}

\* vocab = set(text) is enumerated in an order the set decides; order is the
\* sequence enumerate(vocab) walks.
\* vocab_to_int = {c: i for i, c in enumerate(vocab)}
vocab_to_int_of(order) ==
    [ch \in {order[k] : k \in 1..Len(order)} |->
        (CHOOSE k \in 1..Len(order) : order[k] = ch) - 1]

int_to_vocab_reenumerated(order) ==
    [k \in 0..(Len(order) - 1) |-> order[Len(order) - k]]

\* int_to_vocab = dict(enumerate(vocab))
int_to_vocab_of(order) == [k \in 0..(Len(order) - 1) |-> order[k + 1]]

\* The orders in which a set of characters can be enumerated.
Orders(S) ==
    {o \in [1..Cardinality(S) -> S] :
        \A k, l \in 1..Cardinality(S) : k # l => o[k] # o[l]}

\* chars = np.array([vocab_to_int[c] for c in text], dtype=np.int32)
encode(txt, v2i) == [k \in 1..Len(txt) |-> v2i[txt[k]]]

\* ------------------------------------------------------------- pick_top_n
top_n_default == 5

DroppedCountKeepsOneMore(len, n) ==
    IF n = 0 THEN 0 ELSE Max(0, len - n - 1)

DroppedCountNaive(len, n) == Max(0, len - n)

\* len(a[:-n]) for a of length len: a[:-0] is a[:0], the empty slice.
DroppedCount(len, n) == IF n = 0 THEN 0 ELSE Max(0, len - n)

\* p[np.argsort(p)[:-top_n]] = 0: the arrays p can be afterwards.  The
\* entries zeroed are the smallest ones, ties in the order the sort leaves
\* them.
top_n_zeroed(p, top_n) ==
    LET ids == 1..Len(p)
        z == DroppedCount(Len(p), top_n)
        Zeroed == {Z \in SUBSET ids :
                      /\ Cardinality(Z) = z
                      /\ \A a \in Z : \A o \in ids \ Z : p[a] <= p[o]}
    IN  {[k \in ids |-> IF k \in Z THEN 0 ELSE p[k]] : Z \in Zeroed}

\* np.random.choice(vocab_size, 1, p=p / np.sum(p))[0]: the ids of non-zero
\* probability.
random_choice(vocab_size, p) == {k - 1 : k \in {k \in 1..Len(p) : p[k] > 0}}

\* pick_top_n(preds, vocab_size, top_n): the ids it can return.  p holds one
\* weight per id (id k at index k+1).  The entries at argsort(p)[:-top_n],
\* the smallest ones (ties in the order the sort leaves them), are zeroed,
\* p is renormalized, and np.random.choice draws an id of non-zero
\* probability.
pick_top_n(p, vocab_size, top_n) ==
    UNION {random_choice(vocab_size, q) : q \in top_n_zeroed(p, top_n)}

\* The weight vectors over at most MaxVocab ids with entries up to MaxWeight
\* (ties and zeros included) and at least one non-zero entry, as a softmax
\* returns.
Weights ==
    {p \in UNION {[1..V -> 0..MaxWeight] : V \in 1..MaxVocab} :
        \E k \in 1..Len(p) : p[k] > 0}

\* The distributions the network is taken to return: every rotation of the
\* weights 1..V (no ties), and the uniform one (all ties).
Dists(V) ==
    {[k \in 1..V |-> ((k + r) % V) + 1] : r \in 0..(V - 1)}
        \cup {[k \in 1..V |-> 1]}

\* prime = "Far", the first statement of sample
sample_prime(p) == <<"F", "a", "r">>

\* ------------------------------------------------------------------- state
VARIABLES
    chars,          \* the encoded token stream
    batch_size,     \* B
    num_steps,      \* S
    split_frac,     \* <<numerator, denominator>>
    pc,             \* position of the running notebook cell
    train_x, train_y, val_x, val_y,
    epochs, save_every_n,
    e,              \* epoch index of the outer loop (0-based)
    b,              \* number of training windows consumed in this epoch
    n_batches, iterations, iteration,
    new_state,      \* the carried hidden state
    theta,          \* parameters: number of optimizer steps applied
    val_loss,       \* losses of the running validation pass
    vb,             \* number of validation windows consumed in this pass
    checkpoints,    \* checkpoints kept by the saver, oldest first
    trace,          \* history: every sess.run, validation reset and save
    vocab_to_int, int_to_vocab,
    prime_arg,      \* the prime argument the caller passes to sample
    n_samples,
    prime,          \* sample's local variable prime
    samples,        \* sample's list of output characters
    preds,          \* the distribution of the last forward step
    c,              \* the last id drawn
    pi,             \* number of prime characters replayed
    i,              \* number of iterations of sample's generation loop done
    result,         \* the string sample returned
    fed,            \* history: every id sample fed, with the state it fed
    picks,          \* history: every id pick_top_n returned to sample
    first_nan,      \* history: the iteration whose training loss was the
                    \* first non-finite one, 0 while there was none
    gens,           \* the generator objects made by calls of get_batch
    yielded,        \* history: the windows each generator has yielded
    top_n,          \* the top_n argument of a call of pick_top_n
    drawn_from,     \* history: the distribution pick_top_n was called with
    text            \* the corpus, a string

splitVars == <<chars, batch_size, num_steps, split_frac,
               train_x, train_y, val_x, val_y>>

trainVars == <<epochs, save_every_n, e, b, n_batches, iterations, iteration,
               new_state, theta, val_loss, vb, checkpoints, trace, first_nan>>

otherVars == <<gens, yielded, top_n, drawn_from, text>>

sampleVars == <<vocab_to_int, int_to_vocab, prime_arg, n_samples, prime,
                samples, preds, c, pi, i, result, fed, picks>>

vars == <<pc, splitVars, trainVars, sampleVars, otherVars>>

SampleIdle ==
    /\ vocab_to_int = <<>> /\ int_to_vocab = <<>>
    /\ prime_arg = <<>> /\ n_samples = 0 /\ prime = <<>> /\ samples = <<>>
    /\ preds = <<>> /\ c = 0 /\ pi = 0 /\ i = 0 /\ result = <<>>
    /\ fed = <<>> /\ picks = <<>>

TrainIdle ==
    /\ e = 0 /\ b = 0 /\ n_batches = 0 /\ iterations = 0 /\ iteration = 0
    /\ new_state = ZeroState /\ theta = 0 /\ val_loss = <<>> /\ vb = 0
    /\ checkpoints = <<>> /\ trace = <<>> /\ first_nan = 0

OtherIdle ==
    /\ gens = [g \in 1..2 |-> NewGenerator]
    /\ yielded = [g \in 1..2 |-> <<>>]
    /\ top_n = 0
    /\ drawn_from = <<>>
    /\ text = <<>>

\* ------------------------------------------------- the split_data call alone
InitSplit ==
    /\ chars \in SeqsUpTo(0..(NumSymbols - 1), MaxLen)
    /\ batch_size \in 1..MaxBatchSize
    /\ num_steps \in 1..MaxNumSteps
    /\ split_frac \in SplitFracs
    /\ pc = "split"
    /\ train_x = <<>> /\ train_y = <<>> /\ val_x = <<>> /\ val_y = <<>>
    /\ epochs = 0 /\ save_every_n = 1
    /\ TrainIdle
    /\ SampleIdle
    /\ OtherIdle

\* train_x, train_y, val_x, val_y = split_data(chars, batch_size, num_steps)
SplitData ==
    /\ pc = "split"
    /\ LET r == split_data(chars, batch_size, num_steps, split_frac)
       IN  /\ pc' = IF r.raised THEN "split_raised" ELSE "split_done"
           /\ train_x' = r.train_x
           /\ train_y' = r.train_y
           /\ val_x' = r.val_x
           /\ val_y' = r.val_y
    /\ UNCHANGED <<chars, batch_size, num_steps, split_frac, trainVars,
                   sampleVars, otherVars>>

NextSplit == SplitData

SpecSplit == InitSplit /\ [][NextSplit]_vars

\* ------------------------------------------------------- the training cell
\* A stream of the given length whose tokens are all different.
StreamOfLen(n) == [k \in 1..n |-> k - 1]

Init ==
    /\ chars \in {StreamOfLen(n) : n \in 0..MaxTrainLen}
    /\ batch_size \in 1..MaxBatchSize
    /\ num_steps \in 1..MaxNumSteps
    /\ split_frac \in SplitFracs
    /\ epochs \in 0..MaxEpochs
    /\ save_every_n \in 1..MaxSaveEveryN
    /\ pc = "split"
    /\ train_x = <<>> /\ train_y = <<>> /\ val_x = <<>> /\ val_y = <<>>
    /\ TrainIdle
    /\ SampleIdle
    /\ OtherIdle

Event(kind, it, w, keep_prob, init, final, th0, th1) ==
    [kind |-> kind, e |-> e, iteration |-> it, w |-> w,
     keep_prob |-> keep_prob, init |-> init, final |-> final,
     theta0 |-> th0, theta1 |-> th1]

\* build_rnn, Saver, Session, global_variables_initializer, n_batches and
\* iterations
TrainSetup ==
    /\ pc = "split_done"
    /\ theta' = 0
    /\ n_batches' = Cols(train_x) \div num_steps
    /\ iterations' = (Cols(train_x) \div num_steps) * epochs
    /\ e' = 0
    /\ pc' = "epoch"
    /\ UNCHANGED <<otherVars, sampleVars, splitVars, epochs, save_every_n,
                   b, iteration, new_state, val_loss, vb, checkpoints,
                   trace, first_nan>>

\* for e in range(epochs): the state is reset and the generator restarted
StartEpoch ==
    /\ pc = "epoch"
    /\ e < epochs
    /\ new_state' = epoch_initial_state(new_state)
    /\ b' = 0
    /\ pc' = "batch"
    /\ UNCHANGED <<otherVars, sampleVars, splitVars, epochs, save_every_n,
                   e, n_batches, iterations, iteration, theta, val_loss, vb,
                   checkpoints, trace, first_nan>>

\* range(epochs) is exhausted: the cell ends
Finish ==
    /\ pc = "epoch"
    /\ e >= epochs
    /\ pc' = "done"
    /\ UNCHANGED <<otherVars, sampleVars, splitVars, trainVars>>

\* One training batch: the next window of get_batch([train_x, train_y]) is
\* fed with the carried state, keep probability 0.5, and the optimizer runs.
\* The loss returned is finite or not; once it was not, the parameters the
\* optimizer wrote are not finite either and no later loss is.
TrainBatch ==
    /\ pc = "batch"
    /\ b < Len(get_batch(<<train_x, train_y>>, num_steps))
    /\ \E finite \in (IF first_nan = 0 THEN BOOLEAN ELSE {FALSE}) :
       LET w == get_batch(<<train_x, train_y>>, num_steps)[b + 1]
           r == sess_run(TrainFetches, w[1], w[2], keep_prob_train,
                         new_state, theta, batch_size, num_steps, finite)
       IN  /\ b' = b + 1
           /\ iteration' = e * n_batches + (b + 1)
           /\ IF r.raised
              THEN /\ pc' = "run_raised"
                   /\ UNCHANGED <<new_state, theta, trace, first_nan>>
              ELSE /\ new_state' = r.final_state
                   /\ theta' = r.theta
                   /\ trace' = Append(trace,
                          Event("train", e * n_batches + (b + 1), b + 1,
                                keep_prob_train, new_state,
                                r.final_state, theta, r.theta))
                   /\ first_nan' = IF first_nan = 0 /\ ~finite
                                   THEN e * n_batches + (b + 1)
                                   ELSE first_nan
                   /\ pc' = after_train_batch(finite,
                                Scheduled(iteration', save_every_n,
                                          iterations))
    /\ UNCHANGED <<otherVars, sampleVars, splitVars, epochs, save_every_n,
                   e, n_batches, iterations, val_loss, vb, checkpoints>>

\* The training generator is exhausted: next epoch
EndEpoch ==
    /\ pc = "batch"
    /\ b >= Len(get_batch(<<train_x, train_y>>, num_steps))
    /\ e' = e + 1
    /\ pc' = "epoch"
    /\ UNCHANGED <<otherVars, sampleVars, splitVars, epochs, save_every_n,
                   b, n_batches, iterations, iteration, new_state, theta,
                   val_loss, vb, checkpoints, trace, first_nan>>

\* val_loss = []; new_state = sess.run(model.initial_state)
ValStart ==
    /\ pc = "validate"
    /\ val_loss' = <<>>
    /\ new_state' = ZeroState
    /\ vb' = 0
    /\ trace' = Append(trace,
           Event("val_reset", iteration, 0, keep_prob_eval, new_state,
                 ZeroState, theta, theta))
    /\ pc' = "val"
    /\ UNCHANGED <<otherVars, sampleVars, splitVars, epochs, save_every_n,
                   e, b, n_batches, iterations, iteration, theta,
                   checkpoints, first_nan>>

\* One validation batch: the next window of get_batch([val_x, val_y]) is fed
\* with the carried state and keep probability 1; only cost and final_state
\* are fetched.
ValBatch ==
    /\ pc = "val"
    /\ vb < Len(get_batch(<<val_x, val_y>>, num_steps))
    /\ LET w == get_batch(<<val_x, val_y>>, num_steps)[vb + 1]
           r == sess_run(ValFetches, w[1], w[2], keep_prob_eval,
                         new_state, theta, batch_size, num_steps,
                         first_nan = 0)
       IN  /\ vb' = vb + 1
           /\ IF r.raised
              THEN /\ pc' = "run_raised"
                   /\ UNCHANGED <<new_state, theta, val_loss, trace>>
              ELSE /\ new_state' = r.final_state
                   /\ theta' = r.theta
                   /\ val_loss' = Append(val_loss, r.cost)
                   /\ trace' = Append(trace,
                          Event("val", iteration, vb + 1, keep_prob_eval,
                                new_state, r.final_state, theta, r.theta))
                   /\ pc' = "val"
    /\ UNCHANGED <<otherVars, sampleVars, splitVars, epochs, save_every_n,
                   e, b, n_batches, iterations, iteration, checkpoints,
                   first_nan>>

\* The validation generator is exhausted: saver.save(sess,
\* "checkpoints/anna/i{}_l{}_{:.3f}.ckpt".format(iteration, lstm_size,
\* np.mean(val_loss)))
SaveCheckpoint ==
    /\ pc = "val"
    /\ vb >= Len(get_batch(<<val_x, val_y>>, num_steps))
    /\ checkpoints' = saver_save(checkpoints,
           [iteration |-> iteration, lstm_size |-> lstm_size,
            val_loss |-> np_mean(val_loss), theta |-> theta])
    /\ trace' = Append(trace,
           Event("save", iteration, 0, keep_prob_eval, new_state,
                 new_state, theta, theta))
    /\ pc' = "batch"
    /\ UNCHANGED <<otherVars, sampleVars, splitVars, epochs, save_every_n,
                   e, b, n_batches, iterations, iteration, new_state, theta,
                   val_loss, vb, first_nan>>

Next ==
    \/ SplitData
    \/ TrainSetup
    \/ StartEpoch
    \/ TrainBatch
    \/ EndEpoch
    \/ ValStart
    \/ ValBatch
    \/ SaveCheckpoint
    \/ Finish

Spec == Init /\ [][Next]_vars

\* --------------------------------------------------------- the sample call
\* The orders in which the vocabulary set is enumerated.
VocabOrders ==
    {<<"F", "a", "r", "T", "h", "e">>, <<"e", "h", "T", "r", "a", "F">>}

PrimeArgs == {<<>>, <<"T", "h", "e">>, <<"F", "a", "r">>, <<"h", "a">>}

InitSample ==
    /\ \E order \in VocabOrders :
           /\ vocab_to_int = vocab_to_int_of(order)
           /\ int_to_vocab = int_to_vocab_of(order)
    /\ prime_arg \in PrimeArgs
    /\ n_samples \in 0..MaxSamples
    /\ theta \in 0..1
    /\ pc = "sample"
    /\ prime = <<>> /\ samples = <<>> /\ preds = <<>> /\ c = 0
    /\ pi = 0 /\ i = 0 /\ result = <<>> /\ fed = <<>> /\ picks = <<>>
    /\ chars = <<>> /\ batch_size = 1 /\ num_steps = 1
    /\ split_frac = <<9, 10>>
    /\ train_x = <<>> /\ train_y = <<>> /\ val_x = <<>> /\ val_y = <<>>
    /\ epochs = 0 /\ save_every_n = 1
    /\ e = 0 /\ b = 0 /\ n_batches = 0 /\ iterations = 0 /\ iteration = 0
    /\ new_state = ZeroState /\ val_loss = <<>> /\ vb = 0
    /\ checkpoints = <<>> /\ trace = <<>> /\ first_nan = 0
    /\ OtherIdle

sampleFrame == <<splitVars, epochs, save_every_n, e, b, n_batches, iterations,
                 iteration, theta, val_loss, vb, checkpoints, trace,
                 first_nan, otherVars, vocab_to_int, int_to_vocab, prime_arg,
                 n_samples>>

\* One forward step of the sampling network (batch_size, num_steps = 1, 1)
\* on the id x00, keep probability 1: the state and the history of what was
\* fed.  The distribution returned is the caller's to choose.
SampleRun(x00) ==
    /\ new_state' = static_rnn(<<<<x00>>>>, 1, new_state, keep_prob_eval,
                               theta)
    /\ fed' = Append(fed, [id |-> x00, init |-> new_state])

\* c = pick_top_n(d, len(vocab)); samples.append(int_to_vocab[c]): preds is
\* left holding d with the entries pick_top_n zeroed.
PickAndAppend(d) ==
    \E q \in top_n_zeroed(d, top_n_default) :
        /\ preds' = q
        /\ c' \in random_choice(Cardinality(DOMAIN vocab_to_int), q)
        /\ samples' = Append(samples, int_to_vocab[c'])
        /\ picks' = Append(picks, c')

\* prime = "Far"; samples = [c for c in prime]; the model is built and
\* restored; new_state = sess.run(model.initial_state)
SampleBegin ==
    /\ pc = "sample"
    /\ prime' = sample_prime(prime_arg)
    /\ samples' = sample_prime(prime_arg)
    /\ new_state' = ZeroState
    /\ pi' = 0
    /\ pc' = "prime"
    /\ UNCHANGED <<sampleFrame, preds, c, i, result, fed, picks>>

\* for c in prime: one forward step on vocab_to_int[c]
PrimeStep ==
    /\ pc = "prime"
    /\ pi < Len(prime)
    /\ pi' = pi + 1
    /\ IF prime[pi + 1] \in DOMAIN vocab_to_int
       THEN /\ SampleRun(vocab_to_int[prime[pi + 1]])
            /\ preds' \in Dists(Cardinality(DOMAIN vocab_to_int))
            /\ pc' = "prime"
       ELSE /\ pc' = "sample_raised"
            /\ UNCHANGED <<preds, new_state, fed>>
    /\ UNCHANGED <<sampleFrame, prime, samples, c, i, result, picks>>

\* c = pick_top_n(preds, len(vocab)); samples.append(int_to_vocab[c])
\* after the prime loop; preds is unbound when the prime was empty.
FirstPick ==
    /\ pc = "prime"
    /\ pi >= Len(prime)
    /\ IF Len(prime) = 0
       THEN /\ pc' = "sample_raised"
            /\ UNCHANGED <<preds, c, samples, picks, i>>
       ELSE /\ PickAndAppend(preds)
            /\ i' = 0
            /\ pc' = "loop"
    /\ UNCHANGED <<sampleFrame, prime, new_state, pi, result, fed>>

\* for i in range(n_samples): feed c, draw the next c, append its character
SampleStep ==
    /\ pc = "loop"
    /\ i < n_samples
    /\ SampleRun(c)
    /\ \E d \in Dists(Cardinality(DOMAIN vocab_to_int)) : PickAndAppend(d)
    /\ i' = i + 1
    /\ pc' = "loop"
    /\ UNCHANGED <<sampleFrame, prime, pi, result>>

\* return ''.join(samples)
SampleReturn ==
    /\ pc = "loop"
    /\ i >= n_samples
    /\ result' = samples
    /\ pc' = "returned"
    /\ UNCHANGED <<sampleFrame, prime, samples, preds, c, pi, i, new_state,
                   fed, picks>>

NextSample ==
    \/ SampleBegin
    \/ PrimeStep
    \/ FirstPick
    \/ SampleStep
    \/ SampleReturn

SpecSample == InitSample /\ [][NextSample]_vars

\* ------------------------------------------------- get_batch as a generator
InitBatch ==
    /\ chars \in {StreamOfLen(n) : n \in 0..MaxTrainLen}
    /\ batch_size \in 1..MaxBatchSize
    /\ num_steps \in 1..MaxNumSteps
    /\ split_frac \in SplitFracs
    /\ pc = "split"
    /\ train_x = <<>> /\ train_y = <<>> /\ val_x = <<>> /\ val_y = <<>>
    /\ epochs = 0 /\ save_every_n = 1
    /\ TrainIdle
    /\ SampleIdle
    /\ OtherIdle

\* The list of arrays a generator was given.
GenArrs(which) ==
    IF which = "train" THEN <<train_x, train_y>> ELSE <<val_x, val_y>>

\* get_batch([train_x, train_y], steps) or get_batch([val_x, val_y], steps):
\* the call makes a generator and runs nothing of its body.
GetBatchCall(g, which, steps) ==
    /\ pc = "split_done"
    /\ gens[g].arrs = "none"
    /\ gens' = [gens EXCEPT ![g].arrs = which, ![g].num_steps = steps]
    /\ UNCHANGED <<pc, splitVars, trainVars, sampleVars, yielded, top_n,
                   drawn_from, text>>

\* next() on a generator: the window at its cursor is yielded and the
\* cursor advances, or range(n_batches) is exhausted and it stops.
GenNext(g) ==
    /\ pc = "split_done"
    /\ gens[g].arrs # "none"
    /\ ~gens[g].done
    /\ LET ws == get_batch(GenArrs(gens[g].arrs), gens[g].num_steps)
           k == gen_cursor(g, gens)
       IN  IF k < Len(ws)
           THEN /\ yielded' = [yielded EXCEPT ![g] = Append(@, ws[k + 1])]
                /\ gens' = [gens EXCEPT ![g].b = @ + 1]
           ELSE /\ gens' = [gens EXCEPT ![g].done = TRUE]
                /\ UNCHANGED yielded
    /\ UNCHANGED <<pc, splitVars, trainVars, sampleVars, top_n, drawn_from,
                   text>>

NextBatch ==
    \/ SplitData
    \/ \E g \in 1..2 : \E which \in {"train", "val"} :
           \E steps \in 1..MaxNumSteps : GetBatchCall(g, which, steps)
    \/ \E g \in 1..2 : GenNext(g)

SpecBatch == InitBatch /\ [][NextBatch]_vars

\* ------------------------------------------------- the pick_top_n call alone
InitPick ==
    /\ preds \in Weights \cup Dists(10)
    /\ top_n \in 0..MaxTopN
    /\ pc = "pick"
    /\ c = 0
    /\ drawn_from = <<>>
    /\ vocab_to_int = <<>> /\ int_to_vocab = <<>>
    /\ prime_arg = <<>> /\ n_samples = 0 /\ prime = <<>> /\ samples = <<>>
    /\ pi = 0 /\ i = 0 /\ result = <<>> /\ fed = <<>> /\ picks = <<>>
    /\ gens = [g \in 1..2 |-> NewGenerator]
    /\ yielded = [g \in 1..2 |-> <<>>]
    /\ text = <<>>
    /\ chars = <<>> /\ batch_size = 1 /\ num_steps = 1
    /\ split_frac = <<9, 10>>
    /\ train_x = <<>> /\ train_y = <<>> /\ val_x = <<>> /\ val_y = <<>>
    /\ epochs = 0 /\ save_every_n = 1
    /\ TrainIdle

\* c = pick_top_n(preds, vocab_size, top_n) with vocab_size = len(preds):
\* preds is zeroed in place (p is a view of it), and np.random.choice raises
\* when no probability is left to draw from.
PickTopN ==
    /\ pc = "pick"
    /\ drawn_from' = preds
    /\ \E q \in top_n_zeroed(preds, top_n) :
           /\ preds' = q
           /\ IF random_choice(Len(preds), q) = {}
              THEN /\ pc' = "pick_raised"
                   /\ UNCHANGED c
              ELSE /\ c' \in random_choice(Len(preds), q)
                   /\ pc' = "picked"
    /\ UNCHANGED <<splitVars, trainVars, vocab_to_int, int_to_vocab,
                   prime_arg, n_samples, prime, samples, pi, i, result, fed,
                   picks, gens, yielded, top_n, text>>

NextPick == PickTopN

SpecPick == InitPick /\ [][NextPick]_vars

\* ------------------------------------------------------ the vocabulary cell
InitVocab ==
    /\ text \in SeqsUpTo(Alphabet, MaxTextLen)
    /\ pc = "vocab"
    /\ chars = <<>> /\ batch_size = 1 /\ num_steps = 1
    /\ split_frac = <<9, 10>>
    /\ train_x = <<>> /\ train_y = <<>> /\ val_x = <<>> /\ val_y = <<>>
    /\ epochs = 0 /\ save_every_n = 1
    /\ TrainIdle
    /\ SampleIdle
    /\ gens = [g \in 1..2 |-> NewGenerator]
    /\ yielded = [g \in 1..2 |-> <<>>]
    /\ top_n = 0
    /\ drawn_from = <<>>

\* vocab = set(text); vocab_to_int and int_to_vocab both enumerate that one
\* set, in the order it decides; chars is the text encoded.
BuildVocab ==
    /\ pc = "vocab"
    /\ \E order \in Orders({text[k] : k \in 1..Len(text)}) :
           /\ vocab_to_int' = vocab_to_int_of(order)
           /\ int_to_vocab' = int_to_vocab_of(order)
           /\ chars' = encode(text, vocab_to_int_of(order))
    /\ pc' = "encoded"
    /\ UNCHANGED <<batch_size, num_steps, split_frac, train_x, train_y,
                   val_x, val_y, trainVars, prime_arg, n_samples, prime,
                   samples, preds, c, pi, i, result, fed, picks, otherVars>>

NextVocab == BuildVocab

SpecVocab == InitVocab /\ [][NextVocab]_vars

\* ------------------------------------------------- claims about split_data
\* What the stream and (B, S, split_frac) determine, computed from the inputs.
StreamBatches == Len(chars) \div (batch_size * num_steps)

StreamSplitIdx == (StreamBatches * split_frac[1]) \div split_frac[2]

LaneWidth == StreamBatches * num_steps

SplitFinished == pc \notin {"split"}

SplitReturned == pc \notin {"split", "split_raised"}

\* C4 (as claimed): whenever len(chars) >= B*S, exact multiples of B*S
\* included, split_data returns, and train_x, train_y have shape
\* (B, split_idx*S) and val_x, val_y have shape (B, (n_batches-split_idx)*S).
C4_SplitShapes ==
    (SplitFinished /\ Len(chars) >= batch_size * num_steps) =>
        /\ SplitReturned
        /\ HasShape(train_x, batch_size, StreamSplitIdx * num_steps)
        /\ HasShape(train_y, batch_size, StreamSplitIdx * num_steps)
        /\ HasShape(val_x, batch_size,
                    (StreamBatches - StreamSplitIdx) * num_steps)
        /\ HasShape(val_y, batch_size,
                    (StreamBatches - StreamSplitIdx) * num_steps)

\* C5: every target entry split_data returns is the stream token one
\* position after the input entry of the same lane and column: inside a lane
\* it equals the next input column, and at a lane's last column it is the
\* token at 0-based stream position (lane+1)*n_batches*S.
C5_TargetsShifted ==
    SplitReturned =>
        \A lane \in 1..batch_size :
            LET X == train_x[lane] \o val_x[lane]
                off == (lane - 1) * LaneWidth
            IN  /\ \A j \in 1..Len(train_y[lane]) :
                       /\ off + j + 1 <= Len(chars)
                       /\ train_y[lane][j] = chars[off + j + 1]
                       /\ j < Len(X) => train_y[lane][j] = X[j + 1]
                /\ \A j \in 1..Len(val_y[lane]) :
                       LET k == Len(train_x[lane]) + j
                       IN  /\ off + k + 1 <= Len(chars)
                           /\ val_y[lane][j] = chars[off + k + 1]
                           /\ k < Len(X) => val_y[lane][j] = X[k + 1]
                           /\ k = LaneWidth =>
                                  val_y[lane][j] = chars[lane * LaneWidth + 1]

\* Two lanes, both partitions non-empty, the last target of lane 1 present
\* and different from the input under it.
C5_Witness ==
    /\ SplitReturned
    /\ batch_size = 2
    /\ Len(train_y[1]) >= 1
    /\ Len(val_y[1]) >= 1
    /\ Len(train_y[1]) + Len(val_y[1]) = LaneWidth
    /\ val_y[1][Len(val_y[1])] = chars[LaneWidth + 1]
    /\ val_y[1][Len(val_y[1])] # val_x[1][Len(val_x[1])]

\* C6: each lane's training columns followed by its validation columns are
\* exactly the lane's contiguous block of n_batches*S tokens of the stream, so
\* every position of the truncated stream is in one lane and one partition.
C6_LaneReconstruction ==
    SplitReturned =>
        \A lane \in 1..batch_size :
            /\ Len(train_x) = batch_size /\ Len(val_x) = batch_size
            /\ train_x[lane] \o val_x[lane]
                   = SubSeq(chars, (lane - 1) * LaneWidth + 1,
                            lane * LaneWidth)

C6_Witness ==
    /\ SplitReturned
    /\ batch_size = 2
    /\ Len(train_x[1]) >= 1
    /\ Len(val_x[1]) >= 1
    /\ train_x[1] # train_x[2]
    /\ Len(chars) > batch_size * LaneWidth

\* C7 (as claimed): a stream too short for one full batch makes split_data
\* fail; it never returns matrices then.
C7_InsufficientDataRaised ==
    (SplitFinished /\ StreamBatches = 0) => pc = "split_raised"

\* C7 (amended): a stream too short for one full batch raises nothing:
\* split_data returns four matrices of B rows and no columns.
C7_ShortStreamReturnsEmpty ==
    (SplitFinished /\ StreamBatches = 0) =>
        /\ SplitReturned
        /\ HasShape(train_x, batch_size, 0)
        /\ HasShape(train_y, batch_size, 0)
        /\ HasShape(val_x, batch_size, 0)
        /\ HasShape(val_y, batch_size, 0)

C7_Witness ==
    /\ SplitReturned
    /\ StreamBatches = 0
    /\ Len(chars) >= 1
    /\ batch_size = 2
    /\ val_x = <<<<>>, <<>>>>

\* --------------------------------------------- claims about the training loop
IsTrain(ev) == ev.kind = "train"

TrainEvents == SelectSeq(trace, IsTrain)

TrainWindows == Cols(train_x) \div num_steps

ValWindows == Cols(val_x) \div num_steps

\* The events after training event k, up to the next training event.
SegEnd(k) ==
    LET later == {m \in (k + 1)..Len(trace) : trace[m].kind = "train"}
    IN  IF later = {} THEN Len(trace) + 1
        ELSE CHOOSE m \in later : \A o \in later : m <= o

Seg(k) == SubSeq(trace, k + 1, SegEnd(k) - 1)

\* The loop has gone past what follows training event k.
MovedOn(k) == SegEnd(k) <= Len(trace) \/ pc \in {"batch", "epoch", "done"}

\* C1 (as claimed): every training batch other than the first of its epoch
\* is fed exactly the final state the preceding training batch returned,
\* also when a validation pass ran between the two.
C1_StateCarried ==
    \A k \in 2..Len(TrainEvents) :
        TrainEvents[k].w # 1 =>
            TrainEvents[k].init = TrainEvents[k - 1].final

C9_ValidationKeepsParameters ==
    /\ \A k \in 1..Len(trace) :
           /\ trace[k].kind # "train" => trace[k].theta1 = trace[k].theta0
           /\ trace[k].kind = "train" =>
                  trace[k].theta1 = trace[k].theta0 + 1
           /\ k > 1 => trace[k].theta0 = trace[k - 1].theta1
    /\ theta = Len(TrainEvents)

\* A validation batch ran between two training batches.
C9_Witness ==
    \E k \in 2..Len(trace) :
        /\ trace[k].kind = "val"
        /\ trace[k].theta0 >= 1
        /\ \E l \in (k + 1)..Len(trace) : trace[l].kind = "train"

\* C10: the first training batch of every epoch is fed the zero state,
\* whatever the previous epoch or a validation pass left behind.
C10_EpochStartsFromZero ==
    \A k \in 1..Len(trace) :
        (trace[k].kind = "train" /\ trace[k].w = 1) =>
            trace[k].init = ZeroState

\* The first batch of a later epoch, run after a non-zero state was left.
C10_Witness ==
    \E k \in 2..Len(trace) :
        /\ trace[k].kind = "train"
        /\ trace[k].w = 1
        /\ trace[k].e >= 1
        /\ trace[k - 1].final # ZeroState

\* ------------------------------------------ claims about the batch order
LastEvent == trace[Len(trace)]

C16_StateCarryEquivalence ==
    \A k \in 1..Len(trace) :
        LET ev == trace[k]
            upto == IF ev.kind = "val" THEN ev.w * num_steps
                    ELSE Cols(val_x)
        IN  ev.kind \in {"val", "save"} =>
                /\ Len(ev.final) = upto
                /\ \A j \in 1..upto :
                       /\ j <= Len(ev.final)
                       /\ ev.final[j]
                              = <<Column(val_x, j), "1.", ev.theta0>>

\* A checkpoint saved after a validation pass of two windows of two
\* positions each, run after a training batch.
C16_Witness ==
    \E k \in 1..Len(trace) :
        /\ trace[k].kind = "save"
        /\ trace[k].theta0 >= 1
        /\ ValWindows = 2
        /\ num_steps = 2
        /\ Len(trace[k].final) = 4

\* C17 (as claimed): once a training batch has returned a non-finite loss
\* the run is over: no later training batch, no later optimizer step, and
\* no checkpoint at or after that iteration.
C17_NonFiniteLossIsFatal ==
    first_nan > 0 =>
        /\ \A k \in 1..Len(trace) :
               /\ trace[k].kind = "train" => trace[k].iteration <= first_nan
               /\ trace[k].kind = "save" => trace[k].iteration < first_nan
        /\ theta <= first_nan

\* C17 (amended): a non-finite training loss is not detected.  After the
\* batch that returned it the loop is where it is after any batch, at the
\* validation pass when the iteration is scheduled and at the next batch
\* or the end of the epoch otherwise; a run that finishes has fed all
\* n_batches*epochs batches, applied as many optimizer steps, and saved the
\* last checkpoint, labelled nan.
C17_NonFiniteLossGoesUnnoticed ==
    first_nan > 0 =>
        /\ (/\ trace # <<>>
            /\ LastEvent.kind = "train"
            /\ LastEvent.iteration = first_nan
            /\ iteration = first_nan) =>
               IF (first_nan % save_every_n = 0) \/ (first_nan = iterations)
               THEN pc = "validate"
               ELSE pc \in {"batch", "epoch"}
        /\ pc = "done" =>
               /\ Len(TrainEvents) = iterations
               /\ theta = iterations
               /\ checkpoints # <<>>
               /\ checkpoints[Len(checkpoints)].iteration = iterations
               /\ checkpoints[Len(checkpoints)].val_loss = <<"nan">>

\* A finished run whose loss went non-finite before the last iteration,
\* with a checkpoint saved later.
C17_Witness ==
    /\ pc = "done"
    /\ first_nan > 0
    /\ first_nan + 2 <= iterations
    /\ \E n \in 1..Len(checkpoints) : checkpoints[n].iteration > first_nan
    /\ theta = iterations

\* C19 (as claimed): the run always completes normally; when the training
\* partition has no full window it takes no training step, validates
\* nothing and saves nothing; when it has one, the run ends after exactly
\* n_batches*epochs training steps with a checkpoint saved at the last one.
C19_RunCompletes ==
    /\ pc \notin {"split_raised", "run_raised"}
    /\ (pc \notin {"split"} /\ StreamSplitIdx = 0) =>
           /\ trace = <<>>
           /\ checkpoints = <<>>
           /\ theta = 0
    /\ (pc = "done" /\ StreamSplitIdx >= 1) =>
           /\ Len(TrainEvents) = StreamSplitIdx * epochs
           /\ theta = StreamSplitIdx * epochs
           /\ epochs >= 1 =>
                  /\ checkpoints # <<>>
                  /\ checkpoints[Len(checkpoints)].iteration
                         = StreamSplitIdx * epochs

\* C20: when the validation partition has no window, a scheduled validation
\* pass runs no forward step, the checkpoint is saved all the same, labelled
\* nan (the mean of an empty list), nothing is raised by the pass or the
\* save, and the loop is back at the training batches.
C20_EmptyValidationStillSaves ==
    (pc \notin {"split", "split_raised"} /\ ValWindows = 0) =>
        /\ \A k \in 1..Len(trace) :
               /\ trace[k].kind # "val"
               /\ trace[k].kind = "train" =>
                      LET it == trace[k].iteration
                          seg == Seg(k)
                      IN  IF (it % save_every_n = 0)
                             \/ (it = TrainWindows * epochs)
                          THEN /\ Len(seg) <= 2
                               /\ MovedOn(k) => Len(seg) = 2
                               /\ Len(seg) >= 1 => seg[1].kind = "val_reset"
                               /\ Len(seg) >= 2 =>
                                      /\ seg[2].kind = "save"
                                      /\ seg[2].iteration = it
                          ELSE Len(seg) = 0
        /\ \A n \in 1..Len(checkpoints) :
               checkpoints[n].val_loss = <<"nan">>
        /\ (trace # <<>> /\ LastEvent.kind = "val_reset") => pc = "val"
        /\ (/\ trace # <<>>
            /\ LastEvent.kind = "save"
            /\ iteration = LastEvent.iteration) =>
               pc \in {"batch", "epoch", "done"}

\* A finished run with an empty validation partition, two checkpoints, and
\* a training batch fed after the first save, the loss finite throughout.
C20_Witness ==
    /\ pc = "done"
    /\ ValWindows = 0
    /\ first_nan = 0
    /\ Len(checkpoints) >= 2
    /\ checkpoints[1].val_loss = <<"nan">>
    /\ \E k \in 2..Len(trace) :
           /\ trace[k].kind = "train"
           /\ trace[k - 1].kind = "save"

\* ---------------------------------------------------- claims about get_batch
\* C12 (as claimed): a generator yields floor(columns/num_steps) windows,
\* columns counted on the first array, in left-to-right order; window k of
\* every array passed in has shape B x num_steps and holds that array's
\* columns (k-1)*num_steps+1 .. k*num_steps; nothing past the last full
\* window is yielded.
C12_WindowsInOrderFullShape ==
    \A g \in 1..2 :
        gens[g].arrs # "none" =>
            LET A == GenArrs(gens[g].arrs)
                S == gens[g].num_steps
                nb == Cols(A[1]) \div S
            IN  /\ Len(yielded[g]) <= nb
                /\ gens[g].done => Len(yielded[g]) = nb
                /\ \A k \in 1..Len(yielded[g]) : \A a \in 1..2 :
                       /\ HasShape(yielded[g][k][a], batch_size, S)
                       /\ \A r \in 1..batch_size : \A j \in 1..S :
                              yielded[g][k][a][r][j]
                                  = A[a][r][(k - 1) * S + j]

\* C13: get_batch is restartable.  Two generators made over the same arrays
\* with the same num_steps yield the same windows, however their
\* consumption is interleaved and however far either one got, and the
\* matrices stay what split_data returned.
C13_Restartable ==
    /\ pc = "split_done" =>
           LET r == split_data(chars, batch_size, num_steps, split_frac)
           IN  /\ train_x = r.train_x /\ train_y = r.train_y
               /\ val_x = r.val_x /\ val_y = r.val_y
    /\ \A g, h \in 1..2 :
           (/\ gens[g].arrs # "none"
            /\ gens[g].arrs = gens[h].arrs
            /\ gens[g].num_steps = gens[h].num_steps) =>
               /\ \A k \in 1..Min(Len(yielded[g]), Len(yielded[h])) :
                      yielded[g][k] = yielded[h][k]
               /\ (gens[g].done /\ gens[h].done) => yielded[g] = yielded[h]

\* The first generator is exhausted after at least two windows, the second,
\* over the same arrays, has yielded one.
C13_Witness ==
    /\ gens[1].arrs = "train"
    /\ gens[2].arrs = "train"
    /\ gens[1].num_steps = gens[2].num_steps
    /\ gens[1].done
    /\ Len(yielded[1]) >= 2
    /\ Len(yielded[2]) = 1
    /\ yielded[1][1] # yielded[1][2]

\* --------------------------------------------------- claims about pick_top_n
PickIds == 1..Len(drawn_from)

\* C14: for 1 <= top_n <= V pick_top_n zeroes all but the top_n largest
\* entries and returns an id among them: fewer than top_n ids have a
\* strictly larger probability than the id returned, at most top_n entries
\* are left non-zero, each as it was, none smaller than a zeroed one.
C14_PickWithinTopN ==
    (pc \in {"picked", "pick_raised"}
        /\ 1 <= top_n /\ top_n <= Len(drawn_from)) =>
        /\ pc = "picked"
        /\ c + 1 \in PickIds
        /\ drawn_from[c + 1] > 0
        /\ Cardinality({k \in PickIds : drawn_from[k] > drawn_from[c + 1]})
               < top_n
        /\ Len(preds) = Len(drawn_from)
        /\ preds[c + 1] # 0
        /\ Cardinality({k \in PickIds : preds[k] # 0}) <= top_n
        /\ \A k \in PickIds : preds[k] \in {0, drawn_from[k]}
        /\ \A k, l \in PickIds :
               (preds[k] = 0 /\ preds[l] # 0) =>
                   drawn_from[k] <= drawn_from[l]

\* Ten ids of ten different probabilities, top_n = 3, and the id of the
\* third largest is returned.
C14_Witness ==
    /\ pc = "picked"
    /\ Len(drawn_from) = 10
    /\ top_n = 3
    /\ \A k, l \in PickIds : k # l => drawn_from[k] # drawn_from[l]
    /\ Cardinality({k \in PickIds : drawn_from[k] > drawn_from[c + 1]}) = 2
    /\ Cardinality({k \in PickIds : preds[k] = 0}) = 7

\* C15 (as claimed): a top_n outside [1, V] is rejected: no symbol is drawn
\* for top_n = 0 or top_n > V.
C15_TopNOutOfRangeRejected ==
    (pc \in {"picked", "pick_raised"}
        /\ (top_n < 1 \/ top_n > Len(drawn_from))) =>
        pc = "pick_raised"

\* C15 (amended): a top_n of 0 or above V is not rejected: nothing is
\* zeroed and an id of non-zero probability is drawn from the whole
\* distribution.
C15_TopNOutOfRangeDrawsFromAll ==
    (pc \in {"picked", "pick_raised"}
        /\ (top_n < 1 \/ top_n > Len(drawn_from))) =>
        /\ pc = "picked"
        /\ preds = drawn_from
        /\ c + 1 \in PickIds
        /\ drawn_from[c + 1] > 0

\* top_n = 0 and the id drawn is the least probable of three or more.
C15_Witness ==
    /\ pc = "picked"
    /\ top_n = 0
    /\ Len(drawn_from) >= 3
    /\ \A k \in PickIds : k # c + 1 => drawn_from[k] > drawn_from[c + 1]

\* ----------------------------------------------- claims about the vocabulary
Observed == {text[k] : k \in 1..Len(text)}

\* C18: vocab_to_int and int_to_vocab are mutually inverse bijections
\* between the characters observed in the text and the ids 0..V-1, and
\* every token of the encoded stream is an id in [0, V) that decodes to the
\* character it encodes.
C18_VocabularyRoundTrip ==
    pc = "encoded" =>
        LET V == Cardinality(Observed)
        IN  /\ DOMAIN vocab_to_int = Observed
            /\ DOMAIN int_to_vocab = 0..(V - 1)
            /\ \A ch \in Observed :
                   /\ vocab_to_int[ch] \in 0..(V - 1)
                   /\ int_to_vocab[vocab_to_int[ch]] = ch
            /\ \A id \in 0..(V - 1) :
                   /\ int_to_vocab[id] \in Observed
                   /\ vocab_to_int[int_to_vocab[id]] = id
            /\ Len(chars) = Len(text)
            /\ \A k \in 1..Len(chars) :
                   /\ chars[k] \in 0..(V - 1)
                   /\ int_to_vocab[chars[k]] = text[k]

\* A text of three different characters, enumerated in another order than
\* they first appear in.
C18_Witness ==
    /\ pc = "encoded"
    /\ Cardinality(Observed) = 3
    /\ chars[1] = 2
    /\ chars[3] = 0

\* ------------------------------------------------------ claims about sample
PickedChars == [k \in 1..Len(picks) |-> int_to_vocab[picks[k]]]

\* C2 (as claimed): sample draws exactly n_samples symbols after replaying
\* the prime, and returns the prime followed by those n_samples symbols in
\* the order drawn.
C2_ExactlyNSamplesDrawn ==
    pc = "returned" =>
        /\ Len(picks) = n_samples
        /\ Len(result) = Len(prime) + n_samples
        /\ result = prime \o PickedChars

\* C3 (as claimed): the prime replayed from the zero state and prefixed to
\* the output is the caller's prime argument.
C3_PrimeIsTheArgument ==
    pc = "returned" =>
        /\ Len(fed) >= Len(prime_arg)
        /\ \A k \in 1..Len(prime_arg) :
               k <= Len(fed) => fed[k].id = vocab_to_int[prime_arg[k]]
        /\ fed # <<>> => fed[1].init = ZeroState
        /\ SubSeq(result, 1, Len(prime_arg)) = prime_arg

====
